---- MODULE Spec2Model ----
(***************************************************************************)
(* Model of the ticket-quality tool: the quality scorer                    *)
(* (extract_and_assess.py: extract_fields, assess_ticket), the cache       *)
(* merge (save_to_cache.py: add_items_to_cache) and the reconciler         *)
(* (sync_cache.py: check_sync_status, update_expected_ids,                 *)
(* remove_stale_items).                                                    *)
(*                                                                         *)
(* JSON values.  A value of a work item's "fields" mapping is a record     *)
(*   kind  : "null" (JSON null / None), "str" or "int"                     *)
(*   len   : len(str(value)) for a str or an int                           *)
(*   num   : the number, for an int                                        *)
(*   tags  : number of <...> spans in a str                                *)
(*   words : number of whitespace separated tokens left once the tags are  *)
(*           replaced by blanks                                            *)
(*   kw    : the vocabulary entries the lower-cased str contains           *)
(* A key that is absent from a mapping is absent from the DOMAIN of the    *)
(* function that models the mapping.  The scorer observes a text only      *)
(* through count_words (words) and through `w in text` on the lower-cased  *)
(* text (kw), so kw holds lower-case entries and .lower() does not change  *)
(* it.                                                                     *)
(***************************************************************************)
EXTENDS Integers, Sequences, FiniteSets, TLC

VARIABLES
    pc,         \* what the last run did: "idle" | "assessed" | "saved" |
                \* "aborted" | "status" | "checked" | "ids_updated" | "cleaned",
                \* or where a save stands: "opening" | "writing" | "stopped"
    item,       \* the raw work item being assessed
    now,        \* datetime.now(): [local |-> naive local hour, utcoffset |-> hours]
    result,     \* what assess_ticket returned (or that it raised)
    cache,      \* the cache file's document: [metadata, work_items]
    payload,    \* the items parsed from the input given to save_to_cache
    new_items,  \* the list handed to add_items_to_cache, as the call left it
    counts,     \* (added, updated) returned by the last add_items_to_cache
    file,       \* the cache file on disk: [state |-> "whole" | "empty" | "partial",
                \*   wrote |-> the run opened it for writing]
    ids_file,   \* the IDs file given to sync_cache: [parsed, ids]
    status,     \* what the last check_sync_status returned
    removed     \* the removed count of the last remove_stale_items

vars == <<pc, item, now, result, cache, payload, new_items, counts,
          file, ids_file, status, removed>>

-----------------------------------------------------------------------------
(* Bounds *)

MaxAct == 4        \* most action words a generated title carries
MaxDet == 4        \* most detail nouns a generated title carries
MaxHours == 216    \* start dates range up to this many hours after now
MaxLen == 2        \* cached texts are 3, 6, .. 3 * MaxLen characters long
MaxId == 2         \* work item IDs are 1..MaxId
MaxBatch == 2      \* most items in one input to save_to_cache

-----------------------------------------------------------------------------
(* JSON values *)

NullV == [kind |-> "null", len |-> 0, num |-> 0, tags |-> 0, words |-> 0, kw |-> {}]

IntV(n) == [kind |-> "int", len |-> IF n < 10 THEN 1 ELSE 2, num |-> n,
            tags |-> 0, words |-> 1, kw |-> {}]

StrV(l, t, w, k) == [kind |-> "str", len |-> l, num |-> 0, tags |-> t, words |-> w, kw |-> k]

EmptyStr == StrV(0, 0, 0, {})

\* the str that holds the decimal digits of n, such as "5"
NumStr(n) == [kind |-> "str", len |-> IF n < 10 THEN 1 ELSE 2, num |-> n,
              tags |-> 0, words |-> 1, kw |-> {}]

\* int(value) of an int or of a str of digits
int(v) == v.num

\* Python truthiness: None, '' and 0 are falsy
Truthy(v) == \/ v.kind = "str" /\ v.len > 0
             \/ v.kind = "int" /\ v.num # 0

\* dict.get(key, default)
Get(d, key, default) == IF key \in DOMAIN d THEN d[key] ELSE default

-----------------------------------------------------------------------------
(* Vocabularies of assess_ticket *)

action_words == <<"create", "update", "delete", "validate", "display", "send", "receive",
                  "process", "generate", "implement", "add", "remove", "modify", "enable",
                  "configure", "support", "allow", "provide", "ensure", "verify">>

role_phrases == {"as a ", "as an "}

role_tokens == {"user", "admin", "staff", "inspector", "customer", "agent"}

why_phrases == {"so that", "in order to"}

improvement_verbs == {"improve", "enable", "allow", "support", "ensure"}

detail_indicators == <<"field", "button", "screen", "page", "api", "database", "table",
                       "column", "report", "email", "notification", "validation", "rule">>

gwt_words == {"given", "when", "then"}

should_words == {"should", "must", "verify", "confirm", "ensure"}

edge_words == {"error", "exception", "invalid", "boundary", "edge case", "fail"}

Range(s) == {s[i] : i \in DOMAIN s}

Vocabulary == Range(action_words) \cup role_phrases \cup role_tokens \cup why_phrases
              \cup {"to "} \cup improvement_verbs \cup Range(detail_indicators)
              \cup gwt_words \cup should_words \cup edge_words

-----------------------------------------------------------------------------
(* extract_and_assess.py *)

\* A stripped text: [words, kw]
EmptyText == [words |-> 0, kw |-> {}]

\* strip_html: a falsy value gives "", anything else is str()-ed, its tags
\* are replaced by blanks and the ends are trimmed
strip_html(text) ==
    IF ~Truthy(text) THEN EmptyText
    ELSE [words |-> text.words, kw |-> text.kw]

\* count_words: len(text.split()), 0 for the empty text
count_words(text) == text.words

\* A start date value: JSON null, '', a str that is no ISO date, or an ISO
\* date with its wall clock (in hours) and, when it carries a zone, the
\* zone's offset from UTC.
\* parse_date: None for a falsy or unparsable value, else the datetime
NoDate == [parsed |-> FALSE, wall |-> 0, aware |-> FALSE, utcoffset |-> 0]

parse_date(date_str) ==
    IF date_str.kind = "null" \/ date_str.kind = "empty" THEN NoDate
    ELSE IF date_str.kind = "iso"
         THEN [parsed |-> TRUE, wall |-> date_str.wall, aware |-> date_str.aware,
               utcoffset |-> date_str.utcoffset]
         ELSE NoDate

NullDate == [kind |-> "null", wall |-> 0, aware |-> FALSE, utcoffset |-> 0]
EmptyDate == [kind |-> "empty", wall |-> 0, aware |-> FALSE, utcoffset |-> 0]
GarbageDate == [kind |-> "garbage", wall |-> 0, aware |-> FALSE, utcoffset |-> 0]
IsoDate(w, a, o) == [kind |-> "iso", wall |-> w, aware |-> a, utcoffset |-> o]

\* extract_fields: fields.get(key, '') gives '' for an absent key and None
\* for a key that holds JSON null
extract_fields(it) ==
    LET fields == it.fields IN
    [title |-> Get(fields, "System.Title", EmptyStr),
     description |-> strip_html(Get(fields, "System.Description", EmptyStr)),
     acceptance_criteria |->
         strip_html(Get(fields, "Microsoft.VSTS.Common.AcceptanceCriteria", EmptyStr)),
     start_date |-> Get(fields, "Microsoft.VSTS.Scheduling.StartDate", EmptyDate)]

desc_words(ticket) == count_words(ticket.description)
ac_words(ticket) == count_words(ticket.acceptance_criteria)

\* cap_grade without its first branch: the case of both texts being short
\* falls to the description's cap
cap_grade_no_both(ticket) ==
    IF desc_words(ticket) < 10 THEN "D"
    ELSE IF ac_words(ticket) < 15 THEN "C"
    ELSE ""

\* cap_grade with the caps of the two single cases exchanged
cap_grade_swapped(ticket) ==
    IF ac_words(ticket) < 15 /\ desc_words(ticket) < 10 THEN "F"
    ELSE IF desc_words(ticket) < 10 THEN "C"
    ELSE IF ac_words(ticket) < 15 THEN "D"
    ELSE ""

\* cap_grade: "" stands for None
cap_grade(ticket) ==
    IF ac_words(ticket) < 15 /\ desc_words(ticket) < 10 THEN "F"
    ELSE IF desc_words(ticket) < 10 THEN "D"
    ELSE IF ac_words(ticket) < 15 THEN "C"
    ELSE ""

\* combined = (desc + " " + ac + " " + title).lower(): what it contains
combined(ticket) ==
    ticket.description.kw \cup ticket.acceptance_criteria.kw \cup ticket.title.kw

action_count(ticket) ==
    LET text == combined(ticket)
    IN Cardinality({i \in DOMAIN action_words : action_words[i] \in text})

\* action_points with > for >= at the top band
action_points_off(ticket) ==
    LET n == action_count(ticket)
    IN IF n > 4 THEN 13
       ELSE IF n >= 2 THEN 9
       ELSE IF n >= 1 THEN 5
       ELSE 0

action_points(ticket) ==
    LET n == action_count(ticket)
    IN IF n >= 4 THEN 13
       ELSE IF n >= 2 THEN 9
       ELSE IF n >= 1 THEN 5
       ELSE 0

actor_points(ticket) ==
    LET text == combined(ticket)
    IN IF text \cap role_phrases # {} THEN 9
       ELSE IF text \cap role_tokens # {} THEN 6
       ELSE 2

why_points(ticket) ==
    LET text == combined(ticket)
    IN IF text \cap why_phrases # {} THEN 9
       ELSE IF "to " \in text /\ text \cap improvement_verbs # {} THEN 6
       ELSE 2

detail_count(ticket) ==
    LET text == combined(ticket)
    IN Cardinality({i \in DOMAIN detail_indicators : detail_indicators[i] \in text})

detail_points(ticket) ==
    LET n == detail_count(ticket)
    IN IF n >= 4 THEN 17
       ELSE IF n >= 2 THEN 12
       ELSE IF n >= 1 THEN 7
       ELSE 3

testable_points(ticket) ==
    IF ac_words(ticket) = 0 THEN 0
    ELSE IF ticket.acceptance_criteria.kw \cap gwt_words # {} THEN 13
    ELSE IF ticket.acceptance_criteria.kw \cap should_words # {} THEN 9
    ELSE IF ac_words(ticket) >= 15 THEN 5
    ELSE 2

edge_points(ticket) == IF combined(ticket) \cap edge_words # {} THEN 4 ELSE 1

qual_score(ticket) ==
    action_points(ticket) + actor_points(ticket) + why_points(ticket)
    + detail_points(ticket) + testable_points(ticket) + edge_points(ticket)

\* desc_substance with the digits of the top band exchanged
desc_substance_typo(ticket) ==
    IF desc_words(ticket) >= 75 THEN 21
    ELSE IF desc_words(ticket) >= 50 THEN 10
    ELSE IF desc_words(ticket) >= 25 THEN 7
    ELSE IF desc_words(ticket) >= 10 THEN 4
    ELSE 0

desc_substance(ticket) ==
    IF desc_words(ticket) >= 75 THEN 12
    ELSE IF desc_words(ticket) >= 50 THEN 10
    ELSE IF desc_words(ticket) >= 25 THEN 7
    ELSE IF desc_words(ticket) >= 10 THEN 4
    ELSE 0

\* ac_substance with the points of two bands exchanged
ac_substance_swapped(ticket) ==
    IF ac_words(ticket) >= 75 THEN 13
    ELSE IF ac_words(ticket) >= 40 THEN 7
    ELSE IF ac_words(ticket) >= 20 THEN 10
    ELSE IF ac_words(ticket) >= 15 THEN 4
    ELSE 0

ac_substance(ticket) ==
    IF ac_words(ticket) >= 75 THEN 13
    ELSE IF ac_words(ticket) >= 40 THEN 10
    ELSE IF ac_words(ticket) >= 20 THEN 7
    ELSE IF ac_words(ticket) >= 15 THEN 4
    ELSE 0

quant_score(ticket) == desc_substance(ticket) + ac_substance(ticket)

total_score(ticket) == qual_score(ticket) + quant_score(ticket)

score_grade_strict(total) ==
    IF total >= 75 THEN "A"
    ELSE IF total >= 55 THEN "B"
    ELSE IF total >= 35 THEN "C"
    ELSE IF total >= 25 THEN "D"
    ELSE "F"

score_grade(total) ==
    IF total >= 75 THEN "A"
    ELSE IF total >= 55 THEN "B"
    ELSE IF total >= 35 THEN "C"
    ELSE IF total >= 20 THEN "D"
    ELSE "F"

\* grade_order.get(grade, 0)
grade_order(g) ==
    CASE g = "A" -> 5 [] g = "B" -> 4 [] g = "C" -> 3 [] g = "D" -> 2 [] g = "F" -> 1
      [] OTHER -> 0

\* capped_grade with the comparison turned around: the cap raises
capped_grade_raise(ticket) ==
    LET grade == score_grade(total_score(ticket))
        cap == cap_grade(ticket)
    IN IF cap # "" /\ grade_order(grade) < grade_order(cap) THEN cap ELSE grade

capped_grade(ticket) ==
    LET grade == score_grade(total_score(ticket))
        cap == cap_grade(ticket)
    IN IF cap # "" /\ grade_order(grade) > grade_order(cap) THEN cap ELSE grade

\* (start_date.replace(tzinfo=None) - datetime.now()).days: the wall clock
\* of the start date against the naive local clock, floored to whole days
days_ahead(start, clock) == (start.wall - clock.local) \div 24

is_prelim(ticket, clock) ==
    LET start == parse_date(ticket.start_date)
    IN start.parsed /\ days_ahead(start, clock) > 7

rationale_parts(ticket) ==
    LET p1 == IF desc_words(ticket) < 10 THEN <<"Missing description">>
              ELSE IF desc_words(ticket) < 25 THEN <<"Brief description">>
              ELSE <<>>
        p2 == IF ac_words(ticket) < 15 THEN <<"Missing AC">>
              ELSE IF ac_words(ticket) < 40 THEN <<"Limited AC">>
              ELSE <<>>
        p3 == IF action_count(ticket) < 2 THEN <<"Unclear actions">> ELSE <<>>
        parts == p1 \o p2 \o p3
    IN IF parts # <<>> THEN parts
       ELSE IF total_score(ticket) >= 75 THEN <<"Well-defined with clear requirements">>
       ELSE IF total_score(ticket) >= 55 THEN <<"Good detail with minor gaps">>
       ELSE <<"Needs more detail">>

\* "; ".join(rationale_parts) + f" (Score: {total_score}/100)", kept as its
\* pieces: the phrases in order, then the score text
rationale(ticket) ==
    rationale_parts(ticket) \o <<"(Score: " \o ToString(total_score(ticket)) \o "/100)">>

Raised(what) == [raised |-> what, grade |-> "", score |-> 0, rationale |-> <<>>]

assess_ticket_noted(ticket, clock) ==
    IF ticket.title.kind # "str" THEN Raised("TypeError")
    ELSE [raised |-> "",
          grade |-> capped_grade(ticket),
          score |-> total_score(ticket),
          rationale |-> IF is_prelim(ticket, clock)
                        THEN <<"Preliminary">> \o rationale(ticket)
                        ELSE rationale(ticket)]

\* assess_ticket: the title is concatenated to two str, so a title that is
\* not a str raises TypeError at the line that builds `combined`
assess_ticket(ticket, clock) ==
    IF ticket.title.kind # "str" THEN Raised("TypeError")
    ELSE [raised |-> "",
          grade |-> IF is_prelim(ticket, clock)
                    THEN "Prelim: " \o capped_grade(ticket)
                    ELSE capped_grade(ticket),
          score |-> total_score(ticket),
          rationale |-> rationale(ticket)]

\* base_grade = grade.replace('Prelim: ', '') of main
Grades == {"A", "B", "C", "D", "F"}

base_grade(grade) ==
    IF grade \in Grades THEN grade
    ELSE CHOOSE g \in Grades : grade = "Prelim: " \o g

-----------------------------------------------------------------------------
(* save_to_cache.py *)

\* A work item is [id, fields]: id is <<>> when the item has no top-level
\* 'id' key and <<value>> when it has; fields maps field names to values.

\* item.get('id') or item.get('fields', {}).get('System.Id'): a value, NullV
\* (None) when there is no ID anywhere
item_id(it) ==
    IF it.id # <<>> /\ Truthy(it.id[1]) THEN it.id[1]
    ELSE Get(it.fields, "System.Id", NullV)

\* The dict `existing`, in insertion order: entries [key, item, src]; src is
\* the position in new_items of the object the entry holds (the dict holds
\* the list's own object, not a copy), 0 for an object of the cache.

\* a lookup that never finds the key (keys of two types never compare equal)
FindKey_miss(existing, k) == 0

\* `item_id in existing`: the position of the key, 0 when it is not there
FindKey(existing, k) ==
    IF \E i \in DOMAIN existing : existing[i].key = k
    THEN CHOOSE i \in DOMAIN existing : existing[i].key = k
    ELSE 0

\* existing[k] = it
Put(existing, k, it, src) ==
    LET i == FindKey(existing, k)
        entry == [key |-> k, item |-> it, src |-> src]
    IN IF i = 0 THEN Append(existing, entry) ELSE [existing EXCEPT ![i] = entry]

\* the loop that indexes the cached items by ID; an item without ID is left out
RECURSIVE IndexItems(_, _)
IndexItems(items, existing) ==
    IF items = <<>> THEN existing
    ELSE LET it == Head(items)
             k == item_id(it)
         IN IndexItems(Tail(items), IF Truthy(k) THEN Put(existing, k, it, 0) ELSE existing)

StrLen_flat(v) == 4

\* len(str(value))
StrLen(v) == IF v.kind = "null" THEN 4 ELSE v.len

merge_fields_update(old_fields, new_fields) ==
    [key \in DOMAIN old_fields \cup DOMAIN new_fields |->
        IF key \in DOMAIN new_fields THEN new_fields[key] ELSE old_fields[key]]

merge_fields_keep(old_fields, new_fields) ==
    [key \in DOMAIN old_fields \cup DOMAIN new_fields |->
        IF key \in DOMAIN old_fields THEN old_fields[key] ELSE new_fields[key]]

merge_fields_ge(old_fields, new_fields) ==
    [key \in DOMAIN old_fields \cup DOMAIN new_fields |->
        IF key \notin DOMAIN new_fields THEN old_fields[key]
        ELSE IF key \notin DOMAIN old_fields THEN new_fields[key]
        ELSE IF old_fields[key].kind = "null" \/ old_fields[key].len = 0
                \/ (Truthy(new_fields[key]) /\ StrLen(new_fields[key]) >= StrLen(old_fields[key]))
             THEN new_fields[key]
             ELSE old_fields[key]]

\* the field loop: the new value is used when the old one is missing, None
\* or '', or when the new one is truthy and longer
merge_fields(old_fields, new_fields) ==
    [key \in DOMAIN old_fields \cup DOMAIN new_fields |->
        IF key \notin DOMAIN new_fields THEN old_fields[key]
        ELSE IF key \notin DOMAIN old_fields THEN new_fields[key]
        ELSE LET old_value == old_fields[key]
                 new_value == new_fields[key]
             IN IF old_value.kind = "null" \/ (old_value.kind = "str" /\ old_value.len = 0)
                THEN new_value
                ELSE IF Truthy(new_value) /\ StrLen(new_value) > StrLen(old_value)
                     THEN new_value
                     ELSE old_value]

MergeItem_append(st, j) ==
    IF ~Truthy(item_id(st.new_items[j])) THEN st
    ELSE [st EXCEPT !.existing = Append(@, [key |-> item_id(st.new_items[j]),
                                            item |-> st.new_items[j], src |-> j]),
                    !.added = @ + 1]

\* one pass of `for item in new_items` over the item at position j
MergeItem(st, j) ==
    LET it == st.new_items[j]
        k == item_id(it)
        i == FindKey(st.existing, k)
    IN IF ~Truthy(k) THEN st
       ELSE IF i # 0
            THEN LET old_fields == st.existing[i].item.fields
                     merged_fields == merge_fields(old_fields, it.fields)
                     src == st.existing[i].src
                 IN IF merged_fields # old_fields
                    THEN [st EXCEPT !.existing[i].item.fields = merged_fields,
                                    !.updated = @ + 1,
                                    !.new_items = IF src = 0 THEN @
                                                  ELSE [@ EXCEPT ![src].fields = merged_fields]]
                    ELSE st
            ELSE [st EXCEPT !.existing = Append(@, [key |-> k, item |-> it, src |-> j]),
                            !.added = @ + 1]

RECURSIVE MergeFrom(_, _)
MergeFrom(st, j) ==
    IF j > Len(st.new_items) THEN st ELSE MergeFrom(MergeItem(st, j), j + 1)

\* add_items_to_cache(new_items, cache): the cache with its work_items
\* rebuilt from the index, the counts, and the list new_items as the call
\* leaves it
add_items_to_cache(items, doc) ==
    LET st == MergeFrom([existing |-> IndexItems(doc.work_items, <<>>),
                         added |-> 0, updated |-> 0, new_items |-> items], 1)
    IN [cache |-> [doc EXCEPT !.work_items = [i \in DOMAIN st.existing |-> st.existing[i].item]],
        added |-> st.added,
        updated |-> st.updated,
        new_items |-> st.new_items]

\* save_cache: refreshes last_updated and total_items, then writes the file
save_cache(doc, clock) ==
    [doc EXCEPT !.metadata =
        [key \in DOMAIN doc.metadata \cup {"last_updated", "total_items"} |->
            IF key = "last_updated" THEN clock.local
            ELSE IF key = "total_items" THEN Len(doc.work_items)
            ELSE doc.metadata[key]]]

-----------------------------------------------------------------------------
(* sync_cache.py: the reconciler *)

\* sorted(ids) of a list of integers
RECURSIVE sorted(_)
sorted(ids) ==
    IF ids = <<>> THEN <<>>
    ELSE LET rest == sorted(Tail(ids))
             x == Head(ids)
             k == Cardinality({i \in DOMAIN rest : rest[i] < x})
         IN SubSeq(rest, 1, k) \o <<x>> \o SubSeq(rest, k + 1, Len(rest))

\* sorted(ids) of a set of integers
RECURSIVE sorted_set(_)
sorted_set(ids) ==
    IF ids = {} THEN <<>>
    ELSE LET least == CHOOSE x \in ids : \A y \in ids : x <= y
         IN <<least>> \o sorted_set(ids \ {least})

\* get_cached_ids: int(item_id) of every item that has a truthy ID
get_cached_ids(doc) ==
    {int(item_id(doc.work_items[i])) :
        i \in {j \in DOMAIN doc.work_items : Truthy(item_id(doc.work_items[j]))}}

check_completeness_and(it) ==
    /\ Truthy(Get(it.fields, "System.Description", EmptyStr))
    /\ Truthy(Get(it.fields, "Microsoft.VSTS.Common.AcceptanceCriteria", EmptyStr))

\* check_completeness: bool(desc) or bool(ac)
check_completeness(it) ==
    \/ Truthy(Get(it.fields, "System.Description", EmptyStr))
    \/ Truthy(Get(it.fields, "Microsoft.VSTS.Common.AcceptanceCriteria", EmptyStr))

\* the loop that lists the incomplete items, in the order of the cache
\* (an ID is listed once for every incomplete item that carries it)
RECURSIVE incomplete_ids(_, _)
incomplete_ids(items, common_ids) ==
    IF items = <<>> THEN <<>>
    ELSE LET it == Head(items)
             k == item_id(it)
             rest == incomplete_ids(Tail(items), common_ids)
         IN IF Truthy(k) /\ int(k) \in common_ids /\ ~check_completeness(it)
            THEN <<int(k)>> \o rest
            ELSE rest

removed_ids_all(cached_ids, query_id_set) == cached_ids

\* cached_ids - query_id_set
removed_ids(cached_ids, query_id_set) == cached_ids \ query_id_set

\* check_sync_status(query_ids) on the document of the cache file
check_sync_status(query_ids, doc) ==
    LET cached_ids == get_cached_ids(doc)
        query_id_set == {query_ids[i] : i \in DOMAIN query_ids}
        missing_ids == query_id_set \ cached_ids
        common_ids == query_id_set \cap cached_ids
        incomplete == incomplete_ids(doc.work_items, common_ids)
    IN [query_count |-> Len(query_ids),
        cache_count |-> Cardinality(cached_ids),
        missing_ids |-> sorted_set(missing_ids),
        removed_ids |-> sorted_set(removed_ids(cached_ids, query_id_set)),
        incomplete_ids |-> sorted(incomplete),
        needs_fetch |-> sorted_set(missing_ids \cup {incomplete[i] : i \in DOMAIN incomplete})]

\* the three assignments of update_expected_ids, before its save_cache
set_expected_ids(doc, query_ids, clock) ==
    [doc EXCEPT !.metadata =
        [key \in DOMAIN doc.metadata \cup {"expected_ids", "expected_count", "last_query_sync"} |->
            IF key = "expected_ids" THEN sorted(query_ids)
            ELSE IF key = "expected_count" THEN Len(query_ids)
            ELSE IF key = "last_query_sync" THEN clock.local
            ELSE doc.metadata[key]]]

\* update_expected_ids(query_ids): the document it saves
update_expected_ids(query_ids, doc, clock) ==
    save_cache(set_expected_ids(doc, query_ids, clock), clock)

keeps_all(it, query_id_set) == TRUE

\* `(item.get('id') or ...get('System.Id')) in query_id_set`: the set holds
\* integers, and a str or None is equal to none of them
keeps(it, query_id_set) ==
    LET k == item_id(it) IN k.kind = "int" /\ k.num \in query_id_set

remove_stale_items_sync(query_ids, doc, clock) ==
    LET kept == SelectSeq(doc.work_items,
                          LAMBDA it : keeps(it, {query_ids[i] : i \in DOMAIN query_ids}))
    IN [cache |-> update_expected_ids(query_ids, [doc EXCEPT !.work_items = kept], clock),
        removed |-> Len(doc.work_items) - Len(kept),
        saved |-> TRUE]

\* remove_stale_items(query_ids): the filtered document, the removed count
\* and whether save_cache was called
remove_stale_items(query_ids, doc, clock) ==
    LET query_id_set == {query_ids[i] : i \in DOMAIN query_ids}
        original_count == Len(doc.work_items)
        kept == SelectSeq(doc.work_items, LAMBDA it : keeps(it, query_id_set))
        new_count == Len(kept)
        count == original_count - new_count
    IN [cache |-> IF count > 0 THEN save_cache([doc EXCEPT !.work_items = kept], clock)
                  ELSE doc,
        removed |-> count,
        saved |-> count > 0]

-----------------------------------------------------------------------------
(* Records handed to the scorer *)

FirstN(s, n) == {s[i] : i \in 1..n}

TwoWordEntries == {"as a ", "as an ", "so that", "edge case"}

\* words a text needs to hold every entry of k as words of its own
KwWords(k) == Cardinality(k) + Cardinality(k \cap TwoWordEntries)
              + 2 * Cardinality(k \cap {"in order to"})

\* a length in characters that a text of t tags and w words can have
TextLen(t, w) == 7 * t + 6 * w

DescWordCounts == {0, 5, 9, 10, 24, 25, 49, 50, 74, 75, 80}

AcWordCounts == {0, 1, 14, 15, 19, 20, 39, 40, 60, 74, 75, 80}

TitleKws ==
    {FirstN(action_words, a) \cup FirstN(detail_indicators, d) \cup r \cup y \cup e :
        a \in {0, 1, 2, MaxAct}, d \in {0, 1, 2, MaxDet},
        r \in {{}, {"user"}, {"as a "}},
        y \in {{}, {"to "}, {"so that"}},
        e \in {{}, {"error"}}}

AcKws == {{}, {"given", "when", "then"}, {"ensure"}}

Titles == {StrV(TextLen(0, KwWords(k) + 1), 0, KwWords(k) + 1, k) : k \in TitleKws}

\* a marked-up text: <div>...</div> around w words
Html(w, k) == StrV(TextLen(1, w), 1, w, k)

FourActions == {"create", "update", "validate", "ensure"}

\* descriptions of every length band, and a full one with four action words
Descriptions ==
    {Html(w, {}) : w \in DescWordCounts} \cup {Html(80, FourActions)}

\* acceptance criteria of every length band, and short and long ones with
\* given/when/then or with "ensure"
AcceptanceCriteria ==
    {Html(w, {}) : w \in AcWordCounts}
    \cup {Html(w, k) : w \in {14, 15, 80}, k \in AcKws \ {{}}}
    \cup {Html(1, {"ensure"})}

\* marks a key that the mapping does not hold
AbsentV == [kind |-> "absent", len |-> 0, num |-> 0, tags |-> 0, words |-> 0, kw |-> {}]
AbsentDate == [kind |-> "absent", wall |-> 0, aware |-> FALSE, utcoffset |-> 0]

FieldOf(key, t, d, a, s) ==
    CASE key = "System.Title" -> t
      [] key = "System.Description" -> d
      [] key = "Microsoft.VSTS.Common.AcceptanceCriteria" -> a
      [] key = "Microsoft.VSTS.Scheduling.StartDate" -> s

ScoredKeys == {"System.Title", "System.Description",
               "Microsoft.VSTS.Common.AcceptanceCriteria",
               "Microsoft.VSTS.Scheduling.StartDate"}

\* the work item with the given title, description, acceptance criteria and
\* start date, each possibly absent
MkItem(t, d, a, s) ==
    [id |-> <<IntV(1)>>,
     fields |-> [key \in {k \in ScoredKeys : FieldOf(k, t, d, a, s).kind # "absent"}
                     |-> FieldOf(key, t, d, a, s)]]

\* datetime.now() on a machine on UTC: hour 1000 of the local clock
Clock0 == [local |-> 1000, utcoffset |-> 0]

\* the same local hour on machines in two zones
Clocks == {[local |-> Clock0.local, utcoffset |-> o] : o \in {0, -5}}

FarDate == IsoDate(Clock0.local + MaxHours + 24, FALSE, 0)

RichTitle == StrV(TextLen(0, 4), 0, 4, {"create", "as a ", "field"})

\* datetime.now() two days after Clock0
Later == [local |-> Clock0.local + 2 * 24, utcoffset |-> 0]

\* start dates from two days back to MaxHours ahead of the local clock,
\* naive or carrying a zone
StartDates ==
    {IsoDate(Clock0.local + h, FALSE, 0) : h \in -48..MaxHours}
    \cup {IsoDate(Clock0.local + h, TRUE, o) : h \in -48..MaxHours, o \in {0, 5}}

-----------------------------------------------------------------------------
(* State *)

NoItem == [id |-> <<>>, fields |-> <<>>]

NoResult == [raised |-> "", grade |-> "", score |-> 0, rationale |-> <<>>]

EmptyCache == [metadata |-> <<>>, work_items |-> <<>>]

\* the cache file as a run finds it: load_cache reads a complete document
\* (the empty one when there is no file)
WholeFile == [state |-> "whole", wrote |-> FALSE]

NoIdsFile == [parsed |-> TRUE, ids |-> <<>>]

NoStatus == [query_count |-> 0, cache_count |-> 0, missing_ids |-> <<>>,
             removed_ids |-> <<>>, incomplete_ids |-> <<>>, needs_fetch |-> <<>>]

InitAssess ==
    /\ pc = "idle"
    /\ item = NoItem
    /\ now = Clock0
    /\ result = NoResult
    /\ cache = EmptyCache
    /\ payload = <<>>
    /\ new_items = <<>>
    /\ counts = <<0, 0>>
    /\ file = WholeFile
    /\ ids_file = NoIdsFile
    /\ status = NoStatus
    /\ removed = 0

-----------------------------------------------------------------------------
(* extract_and_assess.main: the loop over the tickets *)

\* one pass of `for ticket in tickets`: the ticket is extracted and assessed
Assess(it, clock) ==
    /\ item' = it
    /\ now' = clock
    /\ result' = assess_ticket(extract_fields(it), clock)
    /\ pc' = "assessed"
    /\ UNCHANGED <<cache, payload, new_items, counts, file, ids_file, status, removed>>

\* full texts under every combination of signals
AssessRich ==
    /\ pc = "idle"
    /\ \E t \in Titles, d \in Descriptions, a \in AcceptanceCriteria :
        Assess(MkItem(t, d, a, AbsentDate), Clock0)

\* records with absent, null or empty values
AssessSparse ==
    /\ pc = "idle"
    /\ \E t \in {AbsentV, NullV, EmptyStr, RichTitle},
       d \in {AbsentV, NullV, EmptyStr, Html(0, {}), Html(80, FourActions)},
       a \in {AbsentV, NullV, EmptyStr, Html(80, gwt_words)},
       s \in {AbsentDate, NullDate, EmptyDate, GarbageDate, FarDate} :
        Assess(MkItem(t, d, a, s), Clock0)

\* records with a start date, assessed on machines in two zones
AssessDated ==
    /\ pc = "idle"
    /\ \E t \in {EmptyStr, RichTitle}, a \in {EmptyStr, Html(80, gwt_words)},
       s \in StartDates, clock \in Clocks :
        Assess(MkItem(t, Html(80, FourActions), a, s), clock)

\* the loop moves on to the next ticket; a raised exception ends the run
NextTicket ==
    /\ pc = "assessed"
    /\ pc' = "idle"
    /\ item' = NoItem
    /\ now' = Clock0
    /\ result' = NoResult
    /\ UNCHANGED <<cache, payload, new_items, counts, file, ids_file, status, removed>>

NextAssess == AssessRich \/ AssessSparse \/ AssessDated \/ NextTicket

SpecAssess == InitAssess /\ [][NextAssess]_vars

\* the ticket of the current state
ticket == extract_fields(item)

Assessed == pc = "assessed" /\ result.raised = ""

-----------------------------------------------------------------------------
(* save_to_cache.main and the cache file *)

\* cached texts: one of each length, and a second one of the greatest length
Texts == {StrV(3 * l, 0, 1, {}) : l \in 1..MaxLen} \cup {StrV(3 * MaxLen, 0, 1, {"add"})}

ShortText == StrV(3, 0, 1, {})

DescOnly(v) == [key \in {"System.Description"} |-> v]

AcOnly(v) == [key \in {"Microsoft.VSTS.Common.AcceptanceCriteria"} |-> v]

\* an item is given its ID at the top level, in fields["System.Id"] or in both
TopId(n, fields) == [id |-> <<IntV(n)>>, fields |-> fields]

\* the top-level ID written as a str of digits
StrId(n, fields) == [id |-> <<NumStr(n)>>, fields |-> fields]

FieldId(n, fields) ==
    [id |-> <<>>,
     fields |-> [key \in DOMAIN fields \cup {"System.Id"} |->
                    IF key = "System.Id" THEN IntV(n) ELSE fields[key]]]

BothIds(n, fields) == [FieldId(n, fields) EXCEPT !.id = <<IntV(n)>>]

NoIdItem == [id |-> <<>>, fields |-> DescOnly(ShortText)]

\* the items an input can hold
InputItems ==
    {TopId(1, DescOnly(v)) : v \in {NullV, EmptyStr} \cup Texts}
    \cup {TopId(1, AcOnly(ShortText)), FieldId(1, DescOnly(ShortText)),
          BothIds(1, DescOnly(EmptyStr)), NoIdItem}
    \cup {TopId(MaxId, DescOnly(ShortText))}

RECURSIVE SeqsUpTo(_, _)
SeqsUpTo(S, n) ==
    IF n = 0 THEN {<<>>}
    ELSE LET shorter == SeqsUpTo(S, n - 1)
         IN shorter \cup {Append(q, x) : q \in {r \in shorter : Len(r) = n - 1}, x \in S}

\* the items that inputs of more than one item are made of
BatchItems ==
    {TopId(1, DescOnly(ShortText)), TopId(1, DescOnly(StrV(3 * MaxLen, 0, 1, {"add"}))),
     TopId(1, AcOnly(ShortText)), TopId(MaxId, DescOnly(ShortText))}

\* the inputs that hold items: every single item, and the lists of up to
\* MaxBatch of the batch items (an item may come twice)
Inputs == {<<it>> : it \in InputItems} \cup (SeqsUpTo(BatchItems, MaxBatch) \ {<<>>})

\* the documents the cache file can hold at the start: none, or one left by
\* earlier runs (with an item that carries no ID, with one ID twice, or
\* with an ID written as a str)
InitialCaches ==
    {EmptyCache,
     [metadata |-> <<>>, work_items |-> <<NoIdItem, TopId(1, DescOnly(EmptyStr))>>],
     [metadata |-> <<>>,
      work_items |-> <<TopId(1, DescOnly(ShortText)), FieldId(1, AcOnly(ShortText))>>],
     [metadata |-> <<>>, work_items |-> <<StrId(1, DescOnly(EmptyStr))>>]}

Init ==
    /\ pc = "idle"
    /\ item = NoItem
    /\ now = Clock0
    /\ result = NoResult
    /\ cache \in InitialCaches
    /\ payload = <<>>
    /\ new_items = <<>>
    /\ counts = <<0, 0>>
    /\ file = WholeFile
    /\ ids_file = NoIdsFile
    /\ status = NoStatus
    /\ removed = 0

\* save_to_cache.main: the items of the input are merged into the loaded
\* cache and the cache is saved; an input without items exits before that
SaveToCache ==
    /\ pc = "idle"
    /\ \E items \in Inputs :
          LET r == add_items_to_cache(items, cache)
          IN /\ payload' = items
             /\ new_items' = r.new_items
             /\ counts' = <<r.added, r.updated>>
             /\ cache' = save_cache(r.cache, now)
    /\ pc' = "saved"
    /\ file' = [state |-> "whole", wrote |-> TRUE]
    /\ UNCHANGED <<item, now, result, ids_file, status, removed>>

\* save_to_cache.main on an input that json.load rejects or that holds no
\* items: the exception or sys.exit(1) ends the run before load_cache
RejectInput ==
    /\ pc = "idle"
    /\ pc' = "aborted"
    /\ UNCHANGED <<item, now, result, cache, payload, new_items, counts,
                   file, ids_file, status, removed>>

\* the expected IDs a query hands over: none, one, one twice, two unsorted
QueryIds == {<<>>, <<1>>, <<1, 1>>, <<MaxId, 1>>}

\* the IDs file: one that json.load rejects, or a list of IDs
Unparsable == [parsed |-> FALSE, ids |-> <<>>]

IdsFiles == {Unparsable} \cup {[parsed |-> TRUE, ids |-> q] : q \in QueryIds}

\* sync_cache.main --status: check_sync_status on the stored expected IDs,
\* when there are some
SyncStatus ==
    /\ pc = "idle"
    /\ LET expected == Get(cache.metadata, "expected_ids", <<>>)
       IN status' = IF expected # <<>> THEN check_sync_status(expected, cache)
                    ELSE NoStatus
    /\ pc' = "status"
    /\ UNCHANGED <<item, now, result, cache, payload, new_items, counts,
                   file, ids_file, removed>>

\* sync_cache.main --check IDS_FILE: the status, then update_expected_ids
SyncCheck ==
    /\ pc = "idle"
    /\ \E f \in IdsFiles :
          /\ ids_file' = f
          /\ IF f.parsed
             THEN /\ status' = check_sync_status(f.ids, cache)
                  /\ cache' = update_expected_ids(f.ids, cache, now)
                  /\ file' = [state |-> "whole", wrote |-> TRUE]
                  /\ pc' = "checked"
             ELSE /\ pc' = "aborted"
                  /\ UNCHANGED <<status, cache, file>>
    /\ UNCHANGED <<item, now, result, payload, new_items, counts, removed>>

\* sync_cache.main --update-ids IDS_FILE
SyncUpdateIds ==
    /\ pc = "idle"
    /\ \E f \in IdsFiles :
          /\ ids_file' = f
          /\ IF f.parsed
             THEN /\ cache' = update_expected_ids(f.ids, cache, now)
                  /\ file' = [state |-> "whole", wrote |-> TRUE]
                  /\ pc' = "ids_updated"
             ELSE /\ pc' = "aborted"
                  /\ UNCHANGED <<cache, file>>
    /\ UNCHANGED <<item, now, result, payload, new_items, counts, status, removed>>

\* sync_cache.main --clean IDS_FILE
SyncClean ==
    /\ pc = "idle"
    /\ \E f \in IdsFiles :
          /\ ids_file' = f
          /\ IF f.parsed
             THEN LET r == remove_stale_items(f.ids, cache, now)
                  IN /\ cache' = r.cache
                     /\ removed' = r.removed
                     /\ file' = [state |-> "whole", wrote |-> r.saved]
                     /\ pc' = "cleaned"
             ELSE /\ pc' = "aborted"
                  /\ UNCHANGED <<cache, removed, file>>
    /\ UNCHANGED <<item, now, result, payload, new_items, counts, status>>

\* the run ends; the next one starts from the file
EndRun ==
    /\ pc \in {"saved", "aborted", "status", "checked", "ids_updated", "cleaned"}
    /\ pc' = "idle"
    /\ payload' = <<>>
    /\ new_items' = <<>>
    /\ counts' = <<0, 0>>
    /\ file' = WholeFile
    /\ ids_file' = NoIdsFile
    /\ status' = NoStatus
    /\ removed' = 0
    /\ UNCHANGED <<item, now, result, cache>>

Next ==
    \/ SaveToCache
    \/ RejectInput
    \/ SyncStatus
    \/ SyncCheck
    \/ SyncUpdateIds
    \/ SyncClean
    \/ EndRun

Spec == Init /\ [][Next]_vars

-----------------------------------------------------------------------------
(* save_cache step by step: open(CACHE_FILE, 'w') empties the file,        *)
(* json.dump writes the document piece by piece, and leaving the `with`    *)
(* block flushes and closes it.  The process can be stopped between any    *)
(* two of these steps.  Until the file is closed, `cache` is the document  *)
(* the file held before the run.                                           *)

\* save_to_cache.main up to the call of save_cache
BeginSave ==
    /\ pc = "idle"
    /\ \E items \in Inputs : payload' = items
    /\ pc' = "opening"
    /\ UNCHANGED <<item, now, result, cache, new_items, counts, file, ids_file,
                   status, removed>>

\* open(CACHE_FILE, 'w'): the file is truncated
OpenFile ==
    /\ pc = "opening"
    /\ file' = [state |-> "empty", wrote |-> TRUE]
    /\ pc' = "writing"
    /\ UNCHANGED <<item, now, result, cache, payload, new_items, counts, ids_file,
                   status, removed>>

\* json.dump has written a part of the document
WriteFile ==
    /\ pc = "writing"
    /\ file.state = "empty"
    /\ file' = [file EXCEPT !.state = "partial"]
    /\ UNCHANGED <<pc, item, now, result, cache, payload, new_items, counts, ids_file,
                   status, removed>>

\* the rest is written and the file is closed
CloseFile ==
    /\ pc = "writing"
    /\ LET r == add_items_to_cache(payload, cache)
       IN /\ new_items' = r.new_items
          /\ counts' = <<r.added, r.updated>>
          /\ cache' = save_cache(r.cache, now)
    /\ file' = [file EXCEPT !.state = "whole"]
    /\ pc' = "saved"
    /\ UNCHANGED <<item, now, result, payload, ids_file, status, removed>>

\* the process is stopped (killed, power loss) during the save
Interrupt ==
    /\ pc \in {"opening", "writing"}
    /\ pc' = "stopped"
    /\ UNCHANGED <<item, now, result, cache, payload, new_items, counts, file,
                   ids_file, status, removed>>

NextSave == BeginSave \/ OpenFile \/ WriteFile \/ CloseFile \/ Interrupt \/ EndRun

SpecSave == Init /\ [][NextSave]_vars

\* the runs that start without a cache file
InitNoFile == Init /\ cache = EmptyCache

SpecNoFile == InitNoFile /\ [][Next]_vars

-----------------------------------------------------------------------------
(* Properties of the scorer, checked under SpecAssess *)

\* C1: a record whose stripped description and acceptance criteria both
\* have 0 words is graded F, whatever its title, keywords and start date
\* (the letter is F; a far start date still prefixes the marker)
ThmC1 ==
    (Assessed /\ desc_words(ticket) = 0 /\ ac_words(ticket) = 0)
        => base_grade(result.grade) = "F"

\* a record with both texts empty whose score alone would give C, and one
\* that also carries the marker
WitC1 ==
    /\ Assessed /\ desc_words(ticket) = 0 /\ ac_words(ticket) = 0
    /\ result.score >= 35 /\ result.grade = "F"

\* C2: with ac_words < 15 the letter grade is never higher than C
ThmC2 ==
    (Assessed /\ ac_words(ticket) < 15)
        => grade_order(base_grade(result.grade)) <= grade_order("C")

\* a record with a short AC whose score alone would give A, graded C
WitC2 ==
    /\ Assessed /\ ac_words(ticket) < 15 /\ desc_words(ticket) >= 10
    /\ result.score >= 75 /\ base_grade(result.grade) = "C"

\* C3: with desc_words < 10 the letter grade is never higher than D
ThmC3 ==
    (Assessed /\ desc_words(ticket) < 10)
        => grade_order(base_grade(result.grade)) <= grade_order("D")

\* the 5-word description with a 60-word AC, scoring high enough for C
WitC3 ==
    /\ Assessed /\ desc_words(ticket) = 5 /\ ac_words(ticket) = 60
    /\ result.score >= 35 /\ result.grade = "D"

\* C4 (as claimed): empty description and empty acceptance criteria give
\* grade F, score 0, the missing-content phrases and "Score: 0/100"
CexC4 ==
    (Assessed /\ ticket.description = EmptyText /\ ticket.acceptance_criteria = EmptyText)
        => /\ base_grade(result.grade) = "F"
           /\ result.score = 0
           /\ \E i \in DOMAIN result.rationale : result.rationale[i] = "Missing description"
           /\ \E i \in DOMAIN result.rationale : result.rationale[i] = "Missing AC"
           /\ \E i \in DOMAIN result.rationale : result.rationale[i] = "(Score: 0/100)"

\* the record of the example: 80 words with four action words, 80 words
\* with given/when/then
IsExampleC5 ==
    /\ Assessed
    /\ desc_words(ticket) = 80 /\ FourActions \subseteq ticket.description.kw
    /\ ac_words(ticket) = 80 /\ gwt_words \subseteq ticket.acceptance_criteria.kw

\* C5 (as claimed): that record gets action 13, testability 13, description
\* substance 12, AC substance 13, a total of at least 75 and grade A
CexC5 ==
    IsExampleC5
        => /\ action_points(ticket) = 13 /\ testable_points(ticket) = 13
           /\ desc_substance(ticket) = 12 /\ ac_substance(ticket) = 13
           /\ result.score >= 75
           /\ base_grade(result.grade) = "A"

\* C5 (amended): that record gets action 13, testability 13, description
\* substance 12, AC substance 13, a total of at least 59, and grade A when
\* the total reaches 75 and B otherwise
ThmC5 ==
    IsExampleC5
        => /\ action_points(ticket) = 13 /\ testable_points(ticket) = 13
           /\ desc_substance(ticket) = 12 /\ ac_substance(ticket) = 13
           /\ result.score >= 59
           /\ base_grade(result.grade) = (IF result.score >= 75 THEN "A" ELSE "B")

\* the example with nothing else in it: total 59, grade B
WitC5 == IsExampleC5 /\ result.score = 59 /\ result.grade = "B"

\* C6: the score is qualitative + quantitative and lies in 0..100, the
\* quantitative part in 0..25 and the qualitative part in 0..75
ThmC6 ==
    Assessed
        => /\ result.score = qual_score(ticket) + quant_score(ticket)
           /\ result.score \in 0..100
           /\ quant_score(ticket) \in 0..25
           /\ qual_score(ticket) \in 0..75

\* the record with every signal at its highest band
WitC6 == Assessed /\ qual_score(ticket) = 65 /\ quant_score(ticket) = 25

\* the records one raise away from t: one more action word or detail noun,
\* or a longer description or acceptance criteria
Raises(t) ==
    {[t EXCEPT !.title.kw = @ \cup {w}] : w \in Range(action_words)}
    \cup {[t EXCEPT !.title.kw = @ \cup {w}] : w \in Range(detail_indicators)}
    \cup {[t EXCEPT !.description.words = n] :
              n \in {m \in DescWordCounts : m > t.description.words}}
    \cup {[t EXCEPT !.acceptance_criteria.words = n] :
              n \in {m \in AcWordCounts : m > t.acceptance_criteria.words}}

\* C7: for a record with no hard cap, raising one positive-weighted signal
\* (action count, detail count, description length, AC length) never
\* lowers the total score or the letter grade
ThmC7 ==
    Assessed =>
        LET t == ticket
        IN cap_grade(t) = ""
            => \A t2 \in Raises(t) :
                  /\ total_score(t2) >= result.score
                  /\ grade_order(capped_grade(t2)) >= grade_order(base_grade(result.grade))

\* an uncapped record that a single raise lifts to the next letter
WitC7 ==
    /\ Assessed
    /\ LET t == ticket
       IN /\ cap_grade(t) = ""
          /\ \E t2 \in Raises(t) :
                grade_order(capped_grade(t2)) > grade_order(base_grade(result.grade))

\* hours from the current time to the start date: a date with a zone is an
\* instant, a naive date is read on the local clock
hours_until(start, clock) ==
    IF start.aware
    THEN (start.wall - start.utcoffset) - (clock.local - clock.utcoffset)
    ELSE start.wall - clock.local

\* C8 (as claimed): the grade carries the marker exactly when the start
\* date is more than 7 days after the current time, and the marker changes
\* neither the score nor the rationale
CexC8 ==
    Assessed
        => /\ (result.grade = "Prelim: " \o capped_grade(ticket))
                <=> (/\ parse_date(ticket.start_date).parsed
                     /\ hours_until(parse_date(ticket.start_date), now) > 7 * 24)
           /\ result.score = total_score(ticket)
           /\ result.rationale = rationale(ticket)

\* C9 (as claimed): extract_fields followed by assess_ticket returns a
\* triple for every raw record, absent and null values included
CexC9 == pc = "assessed" => result.raised = ""

-----------------------------------------------------------------------------
(* Properties of the cache merge, checked under Spec *)

-----------------------------------------------------------------------------
(* Properties of the cache and of the reconciler *)

\* a populated value: neither None nor ''
Populated(v) == ~(v.kind = "null" \/ (v.kind = "str" /\ v.len = 0))

\* the records of a document that carry the ID k
RecordsOf(doc, k) ==
    {doc.work_items[i] : i \in {j \in DOMAIN doc.work_items : item_id(doc.work_items[j]) = k}}

Length(v) == IF v.kind = "null" THEN 0 ELSE v.len

\* the merge rule as the specification words it: the incoming value wins
\* exactly when the stored one is absent or empty, or the incoming one is
\* strictly longer
MostComplete(stored, incoming) ==
    [f \in DOMAIN stored \cup DOMAIN incoming |->
        IF f \notin DOMAIN incoming THEN stored[f]
        ELSE IF f \notin DOMAIN stored THEN incoming[f]
        ELSE IF ~Populated(stored[f]) \/ Length(incoming[f]) > Length(stored[f])
             THEN incoming[f]
             ELSE stored[f]]

\* the records of a list taken one call at a time
RECURSIVE OneByOne(_, _)
OneByOne(items, doc) ==
    IF items = <<>> THEN [cache |-> doc, added |-> 0, updated |-> 0]
    ELSE LET first == add_items_to_cache(<<Head(items)>>, doc)
             rest == OneByOne(Tail(items), first.cache)
         IN [cache |-> rest.cache,
             added |-> first.added + rest.added,
             updated |-> first.updated + rest.updated]

AcKey == "Microsoft.VSTS.Common.AcceptanceCriteria"

\* C12: add_items_to_cache resolves a record by ID.  A record whose ID no
\* cached record carries is appended as it is and counted as added.  A
\* record whose ID is cached is merged into the cached record by the
\* most-complete rule, and counted as updated exactly when a field
\* changed; a cached record without acceptance criteria that meets a
\* same-ID record with them takes them, with an update count of 1.  A
\* list of records is resolved as its records are, one after the other.
ThmC12 ==
    [][pc' = "saved" =>
        /\ Len(payload') = 1 /\ Truthy(item_id(payload'[1])) =>
              LET incoming == payload'[1]
                  k == item_id(incoming)
              IN IF RecordsOf(cache, k) = {}
                 THEN /\ cache'.work_items[Len(cache'.work_items)] = incoming
                      /\ RecordsOf(cache', k) = {incoming}
                      /\ counts' = <<1, 0>>
                 ELSE \E stored \in RecordsOf(cache, k) :
                        LET merged == MostComplete(stored.fields, incoming.fields)
                        IN /\ RecordsOf(cache', k) = {[stored EXCEPT !.fields = merged]}
                           /\ counts' = <<0, IF merged # stored.fields THEN 1 ELSE 0>>
                           /\ (/\ ~Populated(Get(stored.fields, AcKey, NullV))
                               /\ Populated(Get(incoming.fields, AcKey, NullV)))
                                 => /\ merged[AcKey] = incoming.fields[AcKey]
                                    /\ counts'[2] = 1
        /\ LET each == OneByOne(payload', cache)
           IN /\ cache'.work_items = each.cache.work_items
              /\ counts' = <<each.added, each.updated>>]_vars

\* a cached record with a description and no acceptance criteria has met a
\* same-ID record that brings acceptance criteria only: one update
WitC12 ==
    /\ pc = "saved" /\ Len(payload) = 1 /\ counts = <<0, 1>>
    /\ DOMAIN payload[1].fields = {AcKey} /\ Populated(payload[1].fields[AcKey])
    /\ \E merged \in RecordsOf(cache, item_id(payload[1])) :
          /\ merged.fields[AcKey] = payload[1].fields[AcKey]
          /\ Populated(Get(merged.fields, "System.Description", NullV))

\* C13: add_items_to_cache, save_cache and update_expected_ids delete no
\* cached record: after a save_to_cache, --check or --update-ids run
\* work_items has as many records as before, and every record that was
\* there (a record without ID included) is still there under its ID
CexC13 ==
    [][pc' \in {"saved", "checked", "ids_updated"} =>
        /\ Len(cache'.work_items) >= Len(cache.work_items)
        /\ \A i \in DOMAIN cache.work_items :
              \E j \in DOMAIN cache'.work_items :
                  /\ cache'.work_items[j].id = cache.work_items[i].id
                  /\ item_id(cache'.work_items[j]) = item_id(cache.work_items[i])]_vars

\* C14: when the process stops during a save, the cache file holds a
\* complete document (the previous one or the new one), never an empty
\* or partial one
CexC14 == pc = "stopped" => file.state = "whole"

\* the state after a check_sync_status call, and the IDs it was called with
Checked ==
    \/ pc = "checked"
    \/ pc = "status" /\ Get(cache.metadata, "expected_ids", <<>>) # <<>>

ExpectedIds ==
    IF pc = "checked" THEN Range(ids_file.ids) ELSE Range(cache.metadata["expected_ids"])

\* the integers that are the ID of a cached record
CachedIds ==
    {n \in 1..(MaxId + 1) :
        \E i \in DOMAIN cache.work_items :
            LET k == item_id(cache.work_items[i]) IN Truthy(k) /\ int(k) = n}

\* the cached IDs that have a record with neither text
EmptyIds ==
    {n \in CachedIds :
        \E i \in DOMAIN cache.work_items :
            LET it == cache.work_items[i]
            IN /\ Truthy(item_id(it)) /\ int(item_id(it)) = n
               /\ ~Populated(Get(it.fields, "System.Description", NullV))
               /\ ~Populated(Get(it.fields, AcKey, NullV))}

\* C15: check_sync_status returns missing = expected - cached, removed_ids
\* = cached - expected, incomplete = the IDs of cached /\ expected whose
\* record has neither a description nor acceptance criteria, and
\* needs_fetch = missing \/ incomplete
ThmC15 ==
    Checked =>
        /\ Range(status.missing_ids) = ExpectedIds \ CachedIds
        /\ Range(status.removed_ids) = CachedIds \ ExpectedIds
        /\ Range(status.incomplete_ids) = EmptyIds \cap ExpectedIds
        /\ Range(status.needs_fetch) =
              (ExpectedIds \ CachedIds) \cup (EmptyIds \cap ExpectedIds)

\* a check that found a missing ID and an incomplete one, the latter
\* stored as a str
WitC15 ==
    /\ pc = "checked"
    /\ status.missing_ids # <<>> /\ status.incomplete_ids # <<>>
    /\ Len(status.needs_fetch) = 2
    /\ \E i \in DOMAIN cache.work_items : item_id(cache.work_items[i]).kind = "str"

\* C16: missing, cached /\ expected and removed_ids are pairwise disjoint,
\* their union is cached \/ expected, and incomplete is a subset of
\* cached /\ expected
ThmC16 ==
    Checked =>
        LET missing == Range(status.missing_ids)
            extra == Range(status.removed_ids)
            common == CachedIds \cap ExpectedIds
        IN /\ missing \cap common = {}
           /\ missing \cap extra = {}
           /\ common \cap extra = {}
           /\ missing \cup common \cup extra = CachedIds \cup ExpectedIds
           /\ Range(status.incomplete_ids) \subseteq common
           /\ status.query_count = Len(IF pc = "checked" THEN ids_file.ids
                                       ELSE cache.metadata["expected_ids"])
           /\ status.cache_count = Cardinality(CachedIds)

\* a check with a cached ID that is expected and one that is not
WitC16 ==
    /\ pc = "checked"
    /\ status.removed_ids # <<>>
    /\ CachedIds \cap ExpectedIds # {}

\* the expected-ID metadata of a document: which of the keys it has, and
\* their values
ExpectedMeta(doc) ==
    [has |-> DOMAIN doc.metadata \cap {"expected_ids", "last_query_sync"},
     expected_ids |-> Get(doc.metadata, "expected_ids", <<>>),
     last_query_sync |-> Get(doc.metadata, "last_query_sync", 0)]

\* C17: only update_expected_ids changes the expected-ID metadata.  A
\* save_to_cache run (add_items_to_cache, save_cache), a --clean run
\* (remove_stale_items), a --status run (check_sync_status) and a rejected
\* input leave expected_ids and last_query_sync as they were; the --status
\* run changes nothing in the cache and does not write the file; and
\* update_expected_ids(ids) stores the IDs (sorted) as expected_ids and
\* their number as expected_count, and leaves work_items unchanged.
ThmC17 ==
    [][/\ pc' \in {"saved", "cleaned", "status", "aborted"} =>
             ExpectedMeta(cache') = ExpectedMeta(cache)
       /\ pc' = "status" => cache' = cache /\ file' = file
       /\ pc' \in {"checked", "ids_updated"} =>
             LET ids == ids_file'.ids
                 stored == cache'.metadata["expected_ids"]
             IN /\ Len(stored) = Len(ids)
                /\ \A n \in Range(ids) \cup Range(stored) :
                      Cardinality({i \in DOMAIN stored : stored[i] = n})
                          = Cardinality({i \in DOMAIN ids : ids[i] = n})
                /\ \A i \in 1..(Len(stored) - 1) : stored[i] <= stored[i + 1]
                /\ cache'.metadata["expected_count"] = Len(ids)
                /\ cache'.work_items = cache.work_items]_vars

\* --update-ids with two IDs out of order over a cache that holds records
WitC17 ==
    /\ pc = "ids_updated" /\ ids_file.ids = <<MaxId, 1>>
    /\ cache.metadata["expected_ids"] = <<1, MaxId>>
    /\ cache.work_items # <<>>

\* C18: a run whose input cannot be parsed or holds no items (the payload
\* of save_to_cache, the IDs file of --check, --update-ids or --clean)
\* writes nothing: the cache file is what it was
CexC18 ==
    [][(\/ pc' = "aborted"
        \/ pc' \in {"checked", "ids_updated", "cleaned"} /\ ids_file'.ids = <<>>)
          => /\ ~file'.wrote
             /\ cache'.work_items = cache.work_items
             /\ DOMAIN cache'.metadata = DOMAIN cache.metadata
             /\ ExpectedMeta(cache') = ExpectedMeta(cache)]_vars

\* the integer ID of a record is one of the IDs to keep
InKeepIds(it, keepIds) == Truthy(item_id(it)) /\ int(item_id(it)) \in keepIds

-----------------------------------------------------------------------------
(* Properties that relate the scorer, the clock and the cache *)

\* the same record assessed again, two days later
again == assess_ticket(ticket, Later)

\* C21 as claimed: a second evaluation of the same record at another time
\* returns the same grade, score and rationale, and an evaluation leaves
\* the cache document as it was
CexC21 ==
    /\ [](pc = "assessed" => again = result)
    /\ [][pc' = "assessed" => cache' = cache /\ file' = file]_vars

\* what assess_ticket returned, with the letter in the place of the grade
WithLetter(r) == [r EXCEPT !.grade = IF @ = "" THEN "" ELSE base_grade(@)]

\* C21, amended: a second evaluation at another time returns the same
\* score, rationale and letter (or raises the same exception); only the
\* "Prelim: " prefix of the grade may differ; and an evaluation leaves the
\* cache document and the cache file as they were
ThmC21 ==
    /\ [](pc = "assessed" => WithLetter(again) = WithLetter(result))
    /\ [][pc' = "assessed" => cache' = cache /\ file' = file]_vars

\* a record marked preliminary now and not two days later, with the same
\* letter
WitC21 ==
    /\ Assessed
    /\ result.grade # base_grade(result.grade)
    /\ again.grade = base_grade(result.grade)
    /\ again.score = result.score

\* C22: a record without hard cap (desc_words >= 10 and ac_words >= 15)
\* has a total of at least 20 and is never graded F, whatever keywords its
\* texts hold
ThmC22 ==
    (Assessed /\ desc_words(ticket) >= 10 /\ ac_words(ticket) >= 15)
        => /\ result.score >= 20
           /\ base_grade(result.grade) # "F"

\* the record without cap that scores least: 10 and 15 words, no keyword
WitC22 ==
    /\ Assessed /\ desc_words(ticket) = 10 /\ ac_words(ticket) = 15
    /\ result.score = 21 /\ result.grade = "D"

\* C23: a record for which check_completeness reports no content
\* (description and acceptance criteria both absent, None or '') is graded
\* F by extract_fields and assess_ticket
CexC23 ==
    (pc = "assessed" /\ ~check_completeness(item))
        => /\ result.raised = ""
           /\ base_grade(result.grade) = "F"

\* the input brings one record for every ID of needs, each with an integer
\* ID and a non-empty description or acceptance criteria
Fetched(items, needs) ==
    /\ Len(items) = Cardinality(needs)
    /\ {int(item_id(items[j])) : j \in DOMAIN items} = needs
    /\ \A j \in DOMAIN items :
          item_id(items[j]).kind = "int" /\ check_completeness(items[j])

CexC25 ==
    [][pc' = "cleaned" =>
        LET K == ids_file'.ids
            reported == Range(check_sync_status(K, cache).removed_ids)
            Stale(it) == int(item_id(it)) \in reported
            WithId == SelectSeq(cache.work_items, LAMBDA it : Truthy(item_id(it)))
        IN /\ cache'.work_items = SelectSeq(WithId, LAMBDA it : ~Stale(it))
           /\ check_sync_status(K, cache').removed_ids = <<>>
           /\ get_cached_ids(cache) \cap Range(K) \subseteq get_cached_ids(cache')]_vars

\* the fields of the record with ID k after items were merged into doc
FieldsAfter(items, doc, k) ==
    (CHOOSE r \in RecordsOf(add_items_to_cache(items, doc).cache, k) : TRUE).fields

\* a step that saved one record whose ID the cache already held
SavedOne ==
    /\ pc' = "saved" /\ Len(payload') = 1
    /\ Truthy(item_id(payload'[1]))
    /\ RecordsOf(cache, item_id(payload'[1])) # {}

\* the records that may arrive for the ID of the record just saved
SameId == {it \in InputItems : item_id(it) = item_id(payload'[1])}

\* the fields of that record when B is merged after the saved record
AfterAB(B) == FieldsAfter(<<B>>, cache', item_id(B))

\* the fields of that record when B is merged before the saved record
AfterBA(B) ==
    FieldsAfter(<<payload'[1]>>, add_items_to_cache(<<B>>, cache).cache, item_id(B))

\* C26 as claimed: both orders leave every field with the same length, and
\* where the values differ the candidates tie in length and each order
\* kept its earlier candidate
EarlierKept(A, B, AB, BA) ==
    /\ DOMAIN AB = DOMAIN BA
    /\ \A f \in DOMAIN AB :
          /\ Length(AB[f]) = Length(BA[f])
          /\ AB[f] # BA[f] =>
                /\ f \in DOMAIN A \cap DOMAIN B
                /\ Length(A[f]) = Length(B[f])
                /\ AB[f] = A[f] /\ BA[f] = B[f]

CexC26 ==
    [][SavedOne => \A B \in SameId :
          EarlierKept(payload'[1].fields, B.fields, AfterAB(B), AfterBA(B))]_vars

\* C26, amended: both orders leave every field with the same length; where
\* the values differ the candidates tie in length, and each order kept its
\* earlier candidate when the two are populated and its later candidate
\* when the two are empty (None and '')
TieKept(A, B, AB, BA) ==
    /\ DOMAIN AB = DOMAIN BA
    /\ \A f \in DOMAIN AB :
          /\ Length(AB[f]) = Length(BA[f])
          /\ AB[f] # BA[f] =>
                /\ f \in DOMAIN A \cap DOMAIN B
                /\ Length(A[f]) = Length(B[f])
                /\ Populated(A[f]) = Populated(B[f])
                /\ IF Populated(A[f])
                   THEN AB[f] = A[f] /\ BA[f] = B[f]
                   ELSE AB[f] = B[f] /\ BA[f] = A[f]

ThmC26 ==
    [][SavedOne => \A B \in SameId :
          TieKept(payload'[1].fields, B.fields, AfterAB(B), AfterBA(B))]_vars

\* a stored record took a description of the greatest length, and the other
\* text of that length, arriving after it, does not replace it
WitC26 ==
    /\ pc = "saved" /\ Len(payload) = 1 /\ counts = <<0, 1>>
    /\ DOMAIN payload[1].fields = {"System.Description"}
    /\ \E B \in InputItems :
          LET A == payload[1]
              d == "System.Description"
              k == item_id(A)
          IN /\ item_id(B) = k /\ DOMAIN B.fields = {d}
             /\ B.fields[d] # A.fields[d]
             /\ Populated(A.fields[d]) /\ Length(B.fields[d]) = Length(A.fields[d])
             /\ FieldsAfter(<<>>, cache, k)[d] = A.fields[d]
             /\ FieldsAfter(<<B>>, cache, k)[d] = A.fields[d]

====
